---- MODULE Spec2Model ----
(***************************************************************************)
(* The simulation core of src/src/App.tsx: the per-frame update() loop,    *)
(* the canvas click handler (fire) and startGame (restart).                *)
(*                                                                         *)
(* Coordinates are fixed-point integers, Unit steps to one canvas unit, so *)
(* that 0.25, 0.5 and 1.5 are whole numbers.  Along an axis-aligned path   *)
(* every step is exact; along an oblique path a step is truncated to the   *)
(* grid (1/Unit of a canvas unit).                                         *)
(*                                                                         *)
(* React state (gameState, score, ammo) is read by update() through the    *)
(* closure of the last render, and written through setters that take       *)
(* effect at the next render: within one call of update() the value of     *)
(* score and gameState is the one from before the call.                    *)
(***************************************************************************)
EXTENDS Integers, Sequences, FiniteSets, TLC

VARIABLES
    gameState,   \* useState 'menu' | 'playing' | 'won' | 'lost'
    score,       \* useState score
    ammo,        \* useState {left, center, right}: the HUD's snapshot
    rockets,     \* rocketsRef.current
    missiles,    \* missilesRef.current
    explosions,  \* explosionsRef.current
    batteries,   \* batteriesRef.current
    cities,      \* citiesRef.current
    ticks,       \* calls of update() that ran the simulation, this round
    fired,       \* calls of handleCanvasClick, this round
    spawned,     \* calls of spawnRocket, this round
    launched,    \* missiles pushed from each battery, this round
    hist         \* the last operation: its name, the phase before it, the
                 \* point clicked, the run of restarts it ends, and whether
                 \* the frame's draw called spawnRocket

vars == <<gameState, score, ammo, rockets, missiles, explosions, batteries,
          cities, ticks, fired, spawned, launched, hist>>

(* What the renderer and the HUD can observe. *)
Observable == <<gameState, score, ammo, rockets, missiles, explosions,
                batteries, cities>>

-----------------------------------------------------------------------------
(* Bounds of the exploration *)

MaxTicks == 64
InputWindow == 2
MaxFire == 2
MaxSpawn == 1
MaxTrackedId == 4

-----------------------------------------------------------------------------
(* Constants of the program *)

Unit == 20

CANVAS_WIDTH == 800 * Unit
CANVAS_HEIGHT == 600 * Unit
ROCKET_SPEED_MIN == Unit \div 4
ROCKET_SPEED_MAX == (3 * Unit) \div 4
MISSILE_SPEED == 7 * Unit
EXPLOSION_RADIUS_MAX == 40 * Unit
EXPLOSION_GROWTH_RATE == (3 * Unit) \div 2
SCORE_PER_ROCKET == 20
WIN_SCORE == 1000

ImpactDistance == 2 * Unit
HitTolerance == 5 * Unit
SeekRange == 300 * Unit
ExplosionStartRadius == 2 * Unit

InitialBatteries ==
    << [x |-> 50 * Unit, y |-> CANVAS_HEIGHT - 20 * Unit,
        ammo |-> 20, maxAmmo |-> 20, destroyed |-> FALSE],
       [x |-> CANVAS_WIDTH \div 2, y |-> CANVAS_HEIGHT - 20 * Unit,
        ammo |-> 40, maxAmmo |-> 40, destroyed |-> FALSE],
       [x |-> CANVAS_WIDTH - 50 * Unit, y |-> CANVAS_HEIGHT - 20 * Unit,
        ammo |-> 20, maxAmmo |-> 20, destroyed |-> FALSE] >>

InitialCities ==
    [i \in 1..6 |-> [x |-> (50 + 100 * i) * Unit,
                     y |-> CANVAS_HEIGHT - 15 * Unit,
                     destroyed |-> FALSE]]

InitialAmmo == [left |-> 20, center |-> 40, right |-> 20]

-----------------------------------------------------------------------------
(* Arithmetic *)

Sqr(a) == a * a

Abs(a) == IF a < 0 THEN -a ELSE a

RECURSIVE SqrtIter(_, _)
SqrtIter(n, x) ==
    LET y == (x + n \div x) \div 2
    IN  IF y >= x THEN x ELSE SqrtIter(n, y)

(* Math.sqrt, to the grid: the largest r with r * r <= n *)
ISqrt(n) == IF n = 0 THEN 0 ELSE SqrtIter(n, n)

(* (d / distance) * speed, truncated toward zero *)
Toward(d, distance, speed) ==
    IF d >= 0 THEN (d * speed) \div distance
    ELSE -(((-d) * speed) \div distance)

(* Array.prototype.splice(index, 1), 1-based *)
RemoveAt(seq, i) == SubSeq(seq, 1, i - 1) \o SubSeq(seq, i + 1, Len(seq))

RECURSIVE MaxId(_, _)
MaxId(seq, i) ==
    IF i > Len(seq) THEN 0
    ELSE LET rest == MaxId(seq, i + 1)
         IN  IF seq[i].id > rest THEN seq[i].id ELSE rest

(* Math.random().toString(36): an id no entity of the store carries *)
FreshId(seq) == MaxId(seq, 1) + 1

-----------------------------------------------------------------------------
(* update(), step 1: rockets (lines 157-190).  w is the world the call     *)
(* works on: the five stores and the number of setScore calls so far.      *)

NewExplosion(store, px, py) ==
    [id |-> FreshId(store), x |-> px, y |-> py,
     radius |-> ExplosionStartRadius, growing |-> TRUE]

(* the column is not compared: every structure of the row is hit *)
IsHitInRow(s, rocket) ==
    Abs(s.y - rocket.targetY) < HitTolerance

(* the structure stands where the rocket was aimed *)
IsHit(s, rocket) ==
    /\ Abs(s.x - rocket.targetX) < HitTolerance
    /\ Abs(s.y - rocket.targetY) < HitTolerance

(* the hit marks the battery destroyed and leaves its ammo *)
HitBatteryKeepsAmmo(b, rocket) ==
    IF IsHit(b, rocket) THEN [b EXCEPT !.destroyed = TRUE] ELSE b

HitBattery(b, rocket) ==
    IF IsHit(b, rocket) THEN [b EXCEPT !.destroyed = TRUE, !.ammo = 0] ELSE b

HitCity(c, rocket) ==
    IF IsHit(c, rocket) THEN [c EXCEPT !.destroyed = TRUE] ELSE c

(* -= in place of += *)
MoveRocketAway(rocket, dx, dy, distance) ==
    [rocket EXCEPT !.x = @ - Toward(dx, distance, rocket.speed),
                   !.y = @ - Toward(dy, distance, rocket.speed)]

MoveRocket(rocket, dx, dy, distance) ==
    [rocket EXCEPT !.x = @ + Toward(dx, distance, rocket.speed),
                   !.y = @ + Toward(dy, distance, rocket.speed)]

(* the impact is awarded like a kill *)
RocketStepScoresImpact(w, index) ==
    LET rocket == w.rockets[index]
        dx == rocket.targetX - rocket.x
        dy == rocket.targetY - rocket.y
        d2 == dx * dx + dy * dy
    IN  IF d2 < Sqr(ImpactDistance)
        THEN [w EXCEPT
                !.explosions = Append(@, NewExplosion(@, rocket.x, rocket.y)),
                !.batteries = [i \in 1..Len(@) |-> HitBattery(@[i], rocket)],
                !.cities = [i \in 1..Len(@) |-> HitCity(@[i], rocket)],
                !.rockets = RemoveAt(@, index),
                !.kills = @ + 1]
        ELSE [w EXCEPT !.rockets[index] = MoveRocket(rocket, dx, dy, ISqrt(d2))]

RocketStep(w, index) ==
    LET rocket == w.rockets[index]
        dx == rocket.targetX - rocket.x
        dy == rocket.targetY - rocket.y
        d2 == dx * dx + dy * dy
    IN  IF d2 < Sqr(ImpactDistance)
        THEN [w EXCEPT
                !.explosions = Append(@, NewExplosion(@, rocket.x, rocket.y)),
                !.batteries = [i \in 1..Len(@) |-> HitBattery(@[i], rocket)],
                !.cities = [i \in 1..Len(@) |-> HitCity(@[i], rocket)],
                !.rockets = RemoveAt(@, index)]
        ELSE [w EXCEPT !.rockets[index] = MoveRocket(rocket, dx, dy, ISqrt(d2))]

(* forEach visits index 0, 1, 2, ... while the index is inside the array   *)
(* as it is at that moment: a splice moves the next element into the slot  *)
(* just visited, and forEach goes on with the slot after it.               *)
RECURSIVE UpdateRockets(_, _)
UpdateRockets(w, index) ==
    IF index > Len(w.rockets) THEN w
    ELSE UpdateRockets(RocketStep(w, index), index + 1)

-----------------------------------------------------------------------------
(* update(), step 2: missiles (lines 193-228) *)

(* d <= minDist: of equally near rockets the last one is kept *)
RECURSIVE SeekRocketKeepsLast(_, _, _, _, _)
SeekRocketKeepsLast(rs, j, missile, minD2, nearest) ==
    IF j > Len(rs) THEN nearest
    ELSE LET d2 == Sqr(rs[j].x - missile.x) + Sqr(rs[j].y - missile.y)
         IN  IF d2 <= minD2
             THEN SeekRocketKeepsLast(rs, j + 1, missile, d2, j)
             ELSE SeekRocketKeepsLast(rs, j + 1, missile, minD2, nearest)

(* the scan of lines 198-204: the index of nearestRocket, 0 for null;      *)
(* d < minDist is compared on the squares                                  *)
RECURSIVE SeekRocket(_, _, _, _, _)
SeekRocket(rs, j, missile, minD2, nearest) ==
    IF j > Len(rs) THEN nearest
    ELSE LET d2 == Sqr(rs[j].x - missile.x) + Sqr(rs[j].y - missile.y)
         IN  IF d2 < minD2
             THEN SeekRocket(rs, j + 1, missile, d2, j)
             ELSE SeekRocket(rs, j + 1, missile, minD2, nearest)

Retarget(missile, rs) ==
    LET nearest == SeekRocket(rs, 1, missile, Sqr(SeekRange), 0)
    IN  IF nearest # 0
        THEN [missile EXCEPT !.destX = rs[nearest].x, !.destY = rs[nearest].y]
        ELSE missile

MoveMissile(missile, dx, dy, distance) ==
    [missile EXCEPT !.x = @ + Toward(dx, distance, MISSILE_SPEED),
                    !.y = @ + Toward(dy, distance, MISSILE_SPEED)]

(* the explosion is centered on the missile, not on its destination *)
MissileStepBurstsInPlace(w, index) ==
    LET missile == Retarget(w.missiles[index], w.rockets)
        dx == missile.destX - missile.x
        dy == missile.destY - missile.y
        d2 == dx * dx + dy * dy
    IN  IF d2 < Sqr(MISSILE_SPEED)
        THEN [w EXCEPT
                !.explosions =
                    Append(@, NewExplosion(@, missile.x, missile.y)),
                !.missiles = RemoveAt(@, index)]
        ELSE [w EXCEPT !.missiles[index] = MoveMissile(missile, dx, dy, ISqrt(d2))]

MissileStep(w, index) ==
    LET missile == Retarget(w.missiles[index], w.rockets)
        dx == missile.destX - missile.x
        dy == missile.destY - missile.y
        d2 == dx * dx + dy * dy
    IN  IF d2 < Sqr(MISSILE_SPEED)
        THEN [w EXCEPT
                !.explosions =
                    Append(@, NewExplosion(@, missile.destX, missile.destY)),
                !.missiles = RemoveAt(@, index)]
        ELSE [w EXCEPT !.missiles[index] = MoveMissile(missile, dx, dy, ISqrt(d2))]

RECURSIVE UpdateMissiles(_, _)
UpdateMissiles(w, index) ==
    IF index > Len(w.missiles) THEN w
    ELSE UpdateMissiles(MissileStep(w, index), index + 1)

-----------------------------------------------------------------------------
(* update(), step 3: explosions and their collisions (lines 231-254) *)

(* a fading explosion starts to grow again instead of going out *)
ResizeExplosionPulses(exp) ==
    IF exp.growing
    THEN LET r == exp.radius + EXPLOSION_GROWTH_RATE
         IN  [exp EXCEPT !.radius = r, !.growing = ~(r >= EXPLOSION_RADIUS_MAX)]
    ELSE LET r == exp.radius - EXPLOSION_GROWTH_RATE
         IN  [exp EXCEPT !.radius = IF r <= 0 THEN exp.radius ELSE r,
                         !.growing = (r <= 0)]

ResizeExplosion(exp) ==
    IF exp.growing
    THEN LET r == exp.radius + EXPLOSION_GROWTH_RATE
         IN  [exp EXCEPT !.radius = r, !.growing = ~(r >= EXPLOSION_RADIUS_MAX)]
    ELSE [exp EXCEPT !.radius = @ - EXPLOSION_GROWTH_RATE]

(* line 239: the explosion is spliced out of the store *)
Expired(before, after) == ~before.growing /\ after.radius <= 0

(* line 249: dist < exp.radius; a distance is never below a radius <= 0 *)
InBlast(rocket, exp) ==
    /\ exp.radius > 0
    /\ Sqr(rocket.x - exp.x) + Sqr(rocket.y - exp.y) < Sqr(exp.radius)

(* lines 245-253: the inner forEach over the rockets, splicing as it goes *)
RECURSIVE ScanRockets(_, _, _, _)
ScanRockets(rs, rIdx, exp, kills) ==
    IF rIdx > Len(rs) THEN [rockets |-> rs, kills |-> kills]
    ELSE IF InBlast(rs[rIdx], exp)
         THEN ScanRockets(RemoveAt(rs, rIdx), rIdx + 1, exp, kills + 1)
         ELSE ScanRockets(rs, rIdx + 1, exp, kills)

ExplosionStep(w, index) ==
    LET before == w.explosions[index]
        exp == ResizeExplosion(before)
        scan == ScanRockets(w.rockets, 1, exp, w.kills)
    IN  [w EXCEPT
            !.explosions = IF Expired(before, exp)
                           THEN RemoveAt(@, index)
                           ELSE [@ EXCEPT ![index] = exp],
            !.rockets = scan.rockets,
            !.kills = scan.kills]

RECURSIVE UpdateExplosions(_, _)
UpdateExplosions(w, index) ==
    IF index > Len(w.explosions) THEN w
    ELSE UpdateExplosions(ExplosionStep(w, index), index + 1)

-----------------------------------------------------------------------------
(* spawnRocket (lines 131-151) *)

Alive(seq) == SelectSeq(seq, LAMBDA s : ~s.destroyed)

(* destroyed structures are left in the pool of targets *)
SpawnRocketAtAnyStructure(w, r) ==
    LET targets == w.batteries \o w.cities
        target == targets[IF r.pick = "first" THEN 1 ELSE Len(targets)]
    IN  IF Len(targets) = 0 THEN w
        ELSE [w EXCEPT !.rockets =
                Append(@, [id |-> FreshId(@),
                           x |-> IF r.startX = "above" THEN target.x ELSE 0,
                           y |-> 0,
                           targetX |-> target.x, targetY |-> target.y,
                           speed |-> r.speed])]

(* r holds the frame's draws of Math.random(): r.pick stands for           *)
(* Math.floor(Math.random() * targets.length), "first" for a draw near 0   *)
(* and "last" for a draw near 1; r.startX is "above" for the draw that     *)
(* puts the rocket straight above its target and "edge" for the draw 0,    *)
(* the left edge of the canvas; r.speed is the speed drawn.                *)
SpawnRocket(w, r) ==
    LET targets == Alive(w.batteries) \o Alive(w.cities)
        target == targets[IF r.pick = "first" THEN 1 ELSE Len(targets)]
    IN  IF Len(targets) = 0 THEN w
        ELSE [w EXCEPT !.rockets =
                Append(@, [id |-> FreshId(@),
                           x |-> IF r.startX = "above" THEN target.x ELSE 0,
                           y |-> 0,
                           targetX |-> target.x, targetY |-> target.y,
                           speed |-> r.speed])]

-----------------------------------------------------------------------------
(* update(), steps 4 and 5 (lines 256-281) *)

(* some() in place of every() *)
SomeBatteryDestroyed(bs) == \E i \in 1..Len(bs) : bs[i].destroyed

AllBatteriesDestroyed(bs) == \A i \in 1..Len(bs) : bs[i].destroyed

(* the value of gameState after the setGameState calls of lines 262-274,   *)
(* the later call winning; sc is the score the closure holds               *)
TerminalCheck(gs, sc, bs) ==
    LET afterWin == IF sc >= WIN_SCORE THEN "won" ELSE gs
    IN  IF AllBatteriesDestroyed(bs) THEN "lost" ELSE afterWin

AmmoSnapshot(bs) ==
    [left |-> bs[1].ammo, center |-> bs[2].ammo, right |-> bs[3].ammo]

(* the early return taken in the menu only *)
UpdateReturnsEarlyInMenu(gs) == gs = "menu"

(* line 154 *)
UpdateReturnsEarly(gs) == gs # "playing"

(* the simulation part of update(), lines 156-259; r.spawn is the outcome  *)
(* of Math.random() < 0.015 + score / 10000, which either way is possible  *)
(* at every score below 9850                                               *)
Simulate(w, r) ==
    LET w1 == UpdateRockets(w, 1)
        w2 == UpdateMissiles(w1, 1)
        w3 == UpdateExplosions(w2, 1)
    IN  IF r.spawn THEN SpawnRocket(w3, r) ELSE w3

(* the state the handlers read and write, as one record *)
State ==
    [gameState |-> gameState, score |-> score, ammo |-> ammo,
     rockets |-> rockets, missiles |-> missiles, explosions |-> explosions,
     batteries |-> batteries, cities |-> cities]

(* update() (lines 153-283).  s.score and s.gameState are the values the   *)
(* closure holds; each setScore(prev => prev + 20) adds to the score of    *)
(* the next render.                                                        *)
Update(s, r) ==
    IF UpdateReturnsEarly(s.gameState) THEN s
    ELSE LET w == Simulate([rockets |-> s.rockets, missiles |-> s.missiles,
                            explosions |-> s.explosions,
                            batteries |-> s.batteries, cities |-> s.cities,
                            kills |-> 0], r)
         IN  [gameState |-> TerminalCheck(s.gameState, s.score, w.batteries),
              score |-> s.score + SCORE_PER_ROCKET * w.kills,
              ammo |-> AmmoSnapshot(w.batteries),
              rockets |-> w.rockets, missiles |-> w.missiles,
              explosions |-> w.explosions,
              batteries |-> w.batteries, cities |-> w.cities]

-----------------------------------------------------------------------------
(* handleCanvasClick (lines 410-458); target is the click in canvas units *)

Infinity == 2 * CANVAS_WIDTH

(* the ammo test left out *)
EligibleWithoutAmmo(b) == ~b.destroyed

(* line 437 *)
Eligible(b) == ~b.destroyed /\ b.ammo > 0

(* <= in place of < *)
CloserOrEqual(d, minDist) == d <= minDist

(* line 439 *)
Closer(d, minDist) == d < minDist

(* lines 433-444: the index of nearestBattery, 0 for null *)
RECURSIVE NearestBattery(_, _, _, _, _)
NearestBattery(bs, i, x, minDist, nearest) ==
    IF i > Len(bs) THEN nearest
    ELSE IF Eligible(bs[i]) /\ Closer(Abs(bs[i].x - x), minDist)
         THEN NearestBattery(bs, i + 1, x, Abs(bs[i].x - x), i)
         ELSE NearestBattery(bs, i + 1, x, minDist, nearest)

NewMissile(store, b, target) ==
    [id |-> FreshId(store), startX |-> b.x, startY |-> b.y,
     x |-> b.x, y |-> b.y, destX |-> target.x, destY |-> target.y]

(* the test of the phase left out *)
HandleCanvasClickInAnyPhase(s, target) ==
    LET nearest == NearestBattery(s.batteries, 1, target.x, Infinity, 0)
    IN  IF nearest = 0 THEN s
        ELSE [s EXCEPT
                !.batteries[nearest].ammo = @ - 1,
                !.missiles =
                    Append(@, NewMissile(@, s.batteries[nearest], target))]

HandleCanvasClick(s, target) ==
    IF s.gameState # "playing" THEN s
    ELSE LET nearest == NearestBattery(s.batteries, 1, target.x, Infinity, 0)
         IN  IF nearest = 0 THEN s
             ELSE [s EXCEPT
                     !.batteries[nearest].ammo = @ - 1,
                     !.missiles =
                         Append(@, NewMissile(@, s.batteries[nearest], target))]

-----------------------------------------------------------------------------
(* startGame (lines 460-479): the ammo snapshot is not among its writes *)

(* the batteries are not reset *)
StartGameKeepsBatteries(s) ==
    [s EXCEPT !.score = 0, !.gameState = "playing",
              !.rockets = <<>>, !.missiles = <<>>, !.explosions = <<>>,
              !.cities = InitialCities]

(* Play Again leads back to the menu *)
StartGameToMenu(s) ==
    [s EXCEPT !.score = 0, !.gameState = "menu",
              !.rockets = <<>>, !.missiles = <<>>, !.explosions = <<>>,
              !.batteries = InitialBatteries, !.cities = InitialCities]

(* the ammo snapshot is refreshed, but before the batteries are reset *)
StartGameStaleSnapshot(s) ==
    [s EXCEPT !.score = 0, !.gameState = "playing",
              !.ammo = AmmoSnapshot(s.batteries),
              !.rockets = <<>>, !.missiles = <<>>, !.explosions = <<>>,
              !.batteries = InitialBatteries, !.cities = InitialCities]

StartGame(s) ==
    [s EXCEPT !.score = 0, !.gameState = "playing",
              !.rockets = <<>>, !.missiles = <<>>, !.explosions = <<>>,
              !.batteries = InitialBatteries, !.cities = InitialCities]

-----------------------------------------------------------------------------
(* Inputs of the exploration *)

NoPoint == [x |-> -1, y |-> -1]

(* clicks: straight above the center battery; halfway between the left and *)
(* the center battery; near the right battery                              *)
FireTargets ==
    { [x |-> 400 * Unit, y |-> 300 * Unit],
      [x |-> 225 * Unit, y |-> 160 * Unit],
      [x |-> 750 * Unit, y |-> 500 * Unit] }

(* the draws of a frame: no spawn; a spawn above the first live structure *)
(* at the least speed; a spawn at the left edge, aimed at the last live   *)
(* structure, at speed 0.5                                                *)
NoSpawn ==
    [spawn |-> FALSE, pick |-> "first", startX |-> "above",
     speed |-> ROCKET_SPEED_MIN]

FrameDraws ==
    { NoSpawn,
      [spawn |-> TRUE, pick |-> "first", startX |-> "above",
       speed |-> ROCKET_SPEED_MIN],
      [spawn |-> TRUE, pick |-> "last", startX |-> "edge",
       speed |-> Unit \div 2] }

-----------------------------------------------------------------------------
(* Initial states: the state after construction, and three states of a     *)
(* round in progress.  A rocket needs more than 1100 frames from the top   *)
(* edge to a structure, and a score of 980 needs 49 kills; the exploration *)
(* starts from such states instead of replaying the frames that lead to    *)
(* them.  In each of them every rocket was spawned straight above its      *)
(* target                                                                  *)
(* (startX = target.x) with speed 0.5 and has flown down unhindered; no    *)
(* missile is in flight and no explosion is live, and the last frame has   *)
(* set the ammo snapshot.                                                  *)

RocketAbove(id, s, d) ==
    [id |-> id, x |-> s.x, y |-> s.y - d,
     targetX |-> s.x, targetY |-> s.y, speed |-> Unit \div 2]

Constructed ==
    [gameState |-> "menu", score |-> 0, ammo |-> InitialAmmo,
     rockets |-> <<>>, missiles |-> <<>>, explosions |-> <<>>,
     batteries |-> InitialBatteries, cities |-> InitialCities]

InRound(sc, bs, rs) ==
    [gameState |-> "playing", score |-> sc, ammo |-> AmmoSnapshot(bs),
     rockets |-> rs, missiles |-> <<>>, explosions |-> <<>>,
     batteries |-> bs, cities |-> InitialCities]

(* Siege: nothing fired or scored yet; a rocket 3 units above every city   *)
(* and one 6, 6 and 7 units above the batteries.                           *)
Siege ==
    InRound(0, InitialBatteries,
            [i \in 1..9 |->
                IF i <= 6 THEN RocketAbove(i, InitialCities[i], 3 * Unit)
                ELSE RocketAbove(i, InitialBatteries[i - 6],
                                 IF i = 9 THEN 7 * Unit ELSE 6 * Unit)])

(* Endgame: 49 rockets shot down; the side batteries were hit, the center  *)
(* battery has one missile left; two rockets above the first city and one  *)
(* above the center battery.                                               *)
Endgame ==
    InRound(WIN_SCORE - SCORE_PER_ROCKET,
            [i \in 1..3 |->
                IF i = 2 THEN [InitialBatteries[i] EXCEPT !.ammo = 1]
                ELSE [InitialBatteries[i] EXCEPT !.ammo = 0, !.destroyed = TRUE]],
            << RocketAbove(1, InitialCities[1], 3 * Unit),
               RocketAbove(2, InitialCities[1], 10 * Unit),
               RocketAbove(3, InitialBatteries[2], (9 * Unit) \div 2) >>)

(* LastStand: every city and the side batteries were hit; three rockets    *)
(* above the center battery, the first of them 2 units from it and the     *)
(* other two close behind.                                                 *)
LastStand ==
    [InRound(10 * SCORE_PER_ROCKET,
             [i \in 1..3 |->
                 IF i = 2 THEN [InitialBatteries[i] EXCEPT !.ammo = 12]
                 ELSE [InitialBatteries[i] EXCEPT !.ammo = 0, !.destroyed = TRUE]],
             << RocketAbove(1, InitialBatteries[2], 2 * Unit),
                RocketAbove(2, InitialBatteries[2], 4 * Unit),
                RocketAbove(3, InitialBatteries[2], (9 * Unit) \div 2) >>)
        EXCEPT !.cities = [i \in 1..6 |->
                              [InitialCities[i] EXCEPT !.destroyed = TRUE]]]

InitialStates == { Constructed, Siege, Endgame, LastStand }

(* the missiles a scene's round has launched so far: a standing battery    *)
(* has launched what its ammo is short of, a battery that was hit had      *)
(* launched all it had                                                     *)
LaunchedBefore(s) ==
    [i \in 1..Len(s.batteries) |->
        IF s.batteries[i].destroyed THEN s.batteries[i].maxAmmo
        ELSE s.batteries[i].maxAmmo - s.batteries[i].ammo]

Init ==
    \E s \in InitialStates :
        /\ gameState = s.gameState
        /\ score = s.score
        /\ ammo = s.ammo
        /\ rockets = s.rockets
        /\ missiles = s.missiles
        /\ explosions = s.explosions
        /\ batteries = s.batteries
        /\ cities = s.cities
        /\ ticks = 0
        /\ fired = 0
        /\ spawned = 0
        /\ launched = LaunchedBefore(s)
        /\ hist = [op |-> IF s.gameState = "menu" THEN "none" ELSE "tick",
                   phase |-> s.gameState, target |-> NoPoint, streak |-> 0,
                   spawn |-> FALSE]

-----------------------------------------------------------------------------
(* Actions: one per entry point *)

Write(s) ==
    /\ gameState' = s.gameState
    /\ score' = s.score
    /\ ammo' = s.ammo
    /\ rockets' = s.rockets
    /\ missiles' = s.missiles
    /\ explosions' = s.explosions
    /\ batteries' = s.batteries
    /\ cities' = s.cities

(* one animation frame: loop() calls update() *)
Tick ==
    \E r \in FrameDraws :
        /\ ~UpdateReturnsEarly(gameState) => ticks < MaxTicks
        /\ r.spawn => /\ ~UpdateReturnsEarly(gameState)
                      /\ spawned < MaxSpawn
                      /\ ticks < InputWindow
        /\ Write(Update(State, r))
        /\ ticks' = IF UpdateReturnsEarly(gameState) THEN ticks ELSE ticks + 1
        /\ spawned' = IF r.spawn THEN spawned + 1 ELSE spawned
        /\ fired' = fired
        /\ launched' = launched
        /\ hist' = [op |-> "tick", phase |-> gameState, target |-> NoPoint,
                    streak |-> 0, spawn |-> r.spawn]

(* a click or touch on the canvas *)
Fire ==
    \E target \in FireTargets :
        /\ fired < MaxFire
        /\ gameState = "playing" => ticks < InputWindow
        /\ Write(HandleCanvasClick(State, target))
        /\ fired' = fired + 1
        /\ UNCHANGED <<ticks, spawned>>
        /\ launched' =
              [i \in 1..Len(batteries) |->
                  IF /\ Len(missiles') > Len(missiles)
                     /\ missiles'[Len(missiles')].startX = batteries[i].x
                     /\ missiles'[Len(missiles')].startY = batteries[i].y
                  THEN launched[i] + 1
                  ELSE launched[i]]
        /\ hist' = [op |-> "fire", phase |-> gameState, target |-> target,
                    streak |-> 0, spawn |-> FALSE]

(* a click on Start Game or Play Again.  startGame itself tests nothing;   *)
(* its buttons sit in the overlay, which AnimatePresence keeps mounted     *)
(* while it fades out, so a second click can arrive in the playing phase.  *)
Restart ==
    /\ Write(StartGame(State))
    /\ ticks' = 0
    /\ fired' = 0
    /\ spawned' = 0
    /\ launched' = [i \in 1..Len(InitialBatteries) |-> 0]
    /\ hist' = [op |-> "restart", phase |-> gameState, target |-> NoPoint,
                streak |-> IF hist.streak < 2 THEN hist.streak + 1 ELSE 2,
                spawn |-> FALSE]

Next == Tick \/ Fire \/ Restart

Spec == Init /\ [][Next]_vars

(* a frame of a round in progress: the steps of Tick that run the         *)
(* simulation, and no other step, count a tick                            *)
PlayingFrame ==
    /\ gameState = "playing"
    /\ ticks < MaxTicks
    /\ ticks' = ticks + 1

(* requestAnimationFrame keeps calling loop(), which calls update() *)
FairSpec == Spec /\ WF_ticks(PlayingFrame)

-----------------------------------------------------------------------------
(* Properties *)

Batteries == 1..3

(* a battery a missile may be launched from *)
CanFire(b) == ~b.destroyed /\ b.ammo > 0

(* C1: a tick executed while the phase is menu, won or lost changes        *)
(* nothing: the five stores, the score, the phase and the ammo snapshot    *)
(* are the same before and after it.                                       *)
C1_IdleTickChangesNothing ==
    [][(hist'.op = "tick" /\ gameState # "playing")
            => Observable' = Observable]_vars

(* a tick was executed in the phase won while rockets and an explosion     *)
(* were in the stores                                                      *)
C1_Witness ==
    /\ hist.op = "tick"
    /\ hist.phase = "won"
    /\ gameState = "won"
    /\ rockets # <<>>
    /\ explosions # <<>>

(* C2: the tick that processes the 50th kill, which takes the score to     *)
(* 1000 at 20 points a kill, is the tick that sets the phase to won.       *)
C2_WonInTickOfFiftiethKill ==
    [][(hist'.op = "tick" /\ gameState = "playing"
            /\ score = WIN_SCORE - SCORE_PER_ROCKET /\ score' = WIN_SCORE)
         => gameState' = "won"]_vars

(* C3: a playing tick sets the phase to lost exactly when all three        *)
(* batteries are destroyed at its terminal check, whatever the cities and  *)
(* the score.                                                              *)
C3_LostIffAllBatteriesDestroyed ==
    [][(hist'.op = "tick" /\ gameState = "playing")
         => ((gameState' = "lost")
                <=> (\A i \in Batteries : batteries'[i].destroyed))]_vars

(* a playing tick has set lost although the score it read was 1000 and     *)
(* cities remain                                                           *)
C3_Witness ==
    /\ hist.op = "tick"
    /\ hist.phase = "playing"
    /\ gameState = "lost"
    /\ score >= WIN_SCORE
    /\ \E i \in 1..6 : ~cities[i].destroyed

(* C4: the phase changes only menu -> playing, won -> playing and          *)
(* lost -> playing by restart, and playing -> won and playing -> lost by   *)
(* tick; fire never changes it.                                            *)
C4_PhaseTransitions ==
    [][/\ gameState' # gameState
            => \/ /\ hist'.op = "restart"
                  /\ gameState \in {"menu", "won", "lost"}
                  /\ gameState' = "playing"
               \/ /\ hist'.op = "tick"
                  /\ gameState = "playing"
                  /\ gameState' \in {"won", "lost"}
       /\ hist'.op = "fire" => gameState' = gameState]_vars

(* a restart has taken the phase from won to playing *)
C4_Witness ==
    /\ hist.op = "restart"
    /\ hist.phase = "won"
    /\ gameState = "playing"

(* the battery the fire command is to launch from: an eligible battery at  *)
(* the least horizontal distance from x, the first in store order of those *)
Chosen(bs, x) ==
    CHOOSE i \in Batteries :
        /\ CanFire(bs[i])
        /\ \A j \in Batteries :
              CanFire(bs[j]) =>
                  \/ Abs(bs[i].x - x) < Abs(bs[j].x - x)
                  \/ (Abs(bs[i].x - x) = Abs(bs[j].x - x) /\ i <= j)

C6_FireWithoutEligibleBatteryIsNoOp ==
    [][(hist'.op = "fire" /\ \A i \in Batteries : ~CanFire(batteries[i]))
         => Observable' = Observable]_vars

(* the second click of a round in which the only battery standing had one  *)
(* missile: the first click launched it, the second found none eligible    *)
C6_Witness ==
    /\ hist.op = "fire"
    /\ hist.phase = "playing"
    /\ fired = 2
    /\ batteries[1].destroyed /\ batteries[3].destroyed
    /\ ~batteries[2].destroyed /\ batteries[2].ammo = 0
    /\ Len(missiles) + Len(explosions) = 1

(* C7: immediately after restart the observable state is the initial       *)
(* configuration: empty rocket, missile and explosion stores, the three    *)
(* batteries and six cities as constructed, score 0, phase playing, and    *)
(* the ammo snapshot 20/40/20.                                             *)
C7_RestartRestoresInitialConfiguration ==
    hist.op = "restart"
        => /\ rockets = <<>> /\ missiles = <<>> /\ explosions = <<>>
           /\ batteries = InitialBatteries
           /\ cities = InitialCities
           /\ score = 0
           /\ gameState = "playing"
           /\ ammo = InitialAmmo

(* C8: a restart issued right after a restart changes nothing.             *)
C8_RestartIdempotent ==
    [][(hist.op = "restart" /\ hist'.op = "restart")
         => Observable' = Observable]_vars

(* two restarts in a row, the first of them issued in a round whose ammo   *)
(* snapshot was not 20/40/20                                               *)
C8_Witness ==
    /\ hist.op = "restart"
    /\ hist.streak = 2
    /\ ammo # InitialAmmo

(* C9: every battery has 0 <= ammo <= capacity, and ammo 0 once destroyed; *)
(* within a round ammo never increases and a destroyed battery stays       *)
(* destroyed; a missile is never launched from a destroyed battery.        *)
C9_AmmoInvariant ==
    \A i \in Batteries :
        /\ 0 <= batteries[i].ammo
        /\ batteries[i].ammo <= batteries[i].maxAmmo
        /\ batteries[i].destroyed => batteries[i].ammo = 0

C9_AmmoStep ==
    /\ hist'.op # "restart"
         => \A i \in Batteries :
                /\ batteries'[i].ammo <= batteries[i].ammo
                /\ batteries[i].destroyed => batteries'[i].destroyed
    /\ hist'.op = "fire" /\ Len(missiles') > Len(missiles)
         => \E i \in Batteries :
                /\ ~batteries[i].destroyed
                /\ batteries[i].x = missiles'[Len(missiles')].startX
                /\ batteries[i].y = missiles'[Len(missiles')].startY

C9_BatteryAmmo == []C9_AmmoInvariant /\ [][C9_AmmoStep]_vars

(* a click next to the destroyed right battery has launched the missile    *)
(* from the center battery, which is left with no ammo                     *)
C9_Witness ==
    /\ hist.op = "fire"
    /\ hist.target.x = 750 * Unit
    /\ batteries[3].destroyed /\ batteries[3].ammo = 0
    /\ ~batteries[2].destroyed /\ batteries[2].ammo = 0
    /\ missiles # <<>>
    /\ missiles[Len(missiles)].startX = batteries[2].x

(* C10: every explosion in the store has a radius of at most 40.           *)
C10_RadiusAtMostMax ==
    \A i \in 1..Len(explosions) : explosions[i].radius <= EXPLOSION_RADIUS_MAX

-----------------------------------------------------------------------------
(* What a playing tick did, read off the stores before and after it *)

PlayingTick == hist'.op = "tick" /\ gameState = "playing"

Ids(seq) == {seq[i].id : i \in 1..Len(seq)}

(* spawnRocket was called and found a structure standing: the last rocket  *)
(* of the store is the one it pushed                                       *)
Appended ==
    /\ hist'.spawn
    /\ \/ \E i \in 1..Len(batteries') : ~batteries'[i].destroyed
       \/ \E i \in 1..Len(cities') : ~cities'[i].destroyed

(* the rockets that were in the store before the tick and still are *)
Survivors ==
    IF Appended THEN SubSeq(rockets', 1, Len(rockets') - 1) ELSE rockets'

(* the explosions pushed during the tick *)
NewExplosions ==
    {i \in 1..Len(explosions') : explosions'[i].id \notin Ids(explosions)}

Detonations == Len(missiles) - Len(missiles')

Impacts == Cardinality(NewExplosions) - Detonations

(* the rockets removed by an explosion's scan *)
Kills == Len(rockets) - Len(Survivors) - Impacts

(* the explosion was visited by the explosion pass of the tick *)
Processed(exp) ==
    ~\E k \in 1..Len(explosions) : explosions[k] = exp

(* at a distance from the center strictly less than the radius *)
Within(rocket, exp, radius) ==
    /\ radius > 0
    /\ Sqr(rocket.x - exp.x) + Sqr(rocket.y - exp.y) < Sqr(radius)

(* C11: in a playing tick no rocket that is within the current radius of   *)
(* an explosion processed in that tick survives that explosion's scan, and *)
(* each rocket removed by a scan adds exactly 20 to the score.             *)
C11_BlastKillsEveryRocketInRange ==
    [][PlayingTick
         => /\ \A i \in 1..Len(explosions') :
                  Processed(explosions'[i])
                    => \A j \in 1..Len(Survivors) :
                          ~Within(Survivors[j], explosions'[i],
                                  explosions'[i].radius)
            /\ score' = score + SCORE_PER_ROCKET * Kills]_vars

(* C12: a playing tick runs the spawner before the motion step and the     *)
(* collision check before the radius update: a rocket spawned in the tick  *)
(* has been advanced by the end of it, and no rocket survives the tick     *)
(* within the radius an explosion had before the tick.                     *)
C12_SpawnThenMotionThenCollisionThenRadius ==
    [][PlayingTick
         => /\ Appended => rockets'[Len(rockets')].y > 0
            /\ \A k \in 1..Len(explosions) :
                  \A j \in 1..Len(Survivors) :
                      ~Within(Survivors[j], explosions[k],
                              explosions[k].radius)]_vars

(* C13: between two restarts the score never decreases; a playing tick     *)
(* adds 20 for each rocket removed by an explosion and nothing for an      *)
(* impact, a detonation or a spawn; a fire command and an idle tick leave  *)
(* it unchanged; a restart sets it to 0.  The score is a multiple of 20.   *)
C13_ScoreStep ==
    /\ hist'.op # "restart" => score' >= score
    /\ hist'.op = "restart" => score' = 0
    /\ hist'.op = "fire" => score' = score
    /\ hist'.op = "tick" /\ gameState # "playing" => score' = score
    /\ PlayingTick => /\ Kills >= 0
                      /\ score' = score + SCORE_PER_ROCKET * Kills

C13_ScoreCountsKills ==
    /\ [](score >= 0 /\ score % SCORE_PER_ROCKET = 0)
    /\ [][C13_ScoreStep]_vars

(* a playing tick in which one rocket impacted and one was caught by the   *)
(* explosion of the impact: the score went from 200 to 220                 *)
C13_Witness ==
    /\ hist.op = "tick"
    /\ hist.phase = "playing"
    /\ score = 11 * SCORE_PER_ROCKET
    /\ Len(explosions) = 1
    /\ Len(rockets) = 1
    /\ batteries[2].destroyed

(* C14: in a playing tick every explosion that is in the store when the    *)
(* explosion pass starts is processed exactly once: one that was in the    *)
(* store before the tick and still is has its radius changed by exactly    *)
(* 1.5, also when another explosion is removed in the tick; one pushed in  *)
(* the tick has radius 2 + 1.5.                                            *)
C14_EveryExplosionProcessedOnce ==
    [][PlayingTick
         => \A i \in 1..Len(explosions') :
               /\ i \in NewExplosions
                    => explosions'[i].radius
                         = ExplosionStartRadius + EXPLOSION_GROWTH_RATE
               /\ \A k \in 1..Len(explosions) :
                     explosions[k].id = explosions'[i].id
                       => Abs(explosions'[i].radius - explosions[k].radius)
                            = EXPLOSION_GROWTH_RATE]_vars

-----------------------------------------------------------------------------
(* What the passes of the next playing tick do, entity by entity *)

(* the stores as update() finds them *)
World ==
    [rockets |-> rockets, missiles |-> missiles, explosions |-> explosions,
     batteries |-> batteries, cities |-> cities, kills |-> 0]

At(s, px, py) == s.x = px /\ s.y = py

(* the rocket at index is processed in world w, at distance < 2 *)
ImpactFrame(w, index) ==
    LET rocket == w.rockets[index]
        after == RocketStep(w, index)
        last == after.explosions[Len(after.explosions)]
    IN  Sqr(rocket.targetX - rocket.x) + Sqr(rocket.targetY - rocket.y)
            < Sqr(2 * Unit)
        => /\ Len(after.rockets) = Len(w.rockets) - 1
           /\ \A k \in 1..Len(after.rockets) :
                 after.rockets[k] = w.rockets[IF k < index THEN k ELSE k + 1]
           /\ Len(after.explosions) = Len(w.explosions) + 1
           /\ SubSeq(after.explosions, 1, Len(w.explosions)) = w.explosions
           /\ last.x = rocket.x /\ last.y = rocket.y
           /\ last.radius = 2 * Unit /\ last.growing
           /\ \A i \in 1..Len(w.batteries) :
                 IF At(w.batteries[i], rocket.targetX, rocket.targetY)
                 THEN after.batteries[i] =
                        [w.batteries[i] EXCEPT !.destroyed = TRUE, !.ammo = 0]
                 ELSE after.batteries[i] = w.batteries[i]
           /\ \A i \in 1..Len(w.cities) :
                 IF At(w.cities[i], rocket.targetX, rocket.targetY)
                 THEN after.cities[i] = [w.cities[i] EXCEPT !.destroyed = TRUE]
                 ELSE after.cities[i] = w.cities[i]
           /\ Cardinality({i \in 1..Len(w.batteries) :
                              after.batteries[i] # w.batteries[i]})
                + Cardinality({i \in 1..Len(w.cities) :
                                 after.cities[i] # w.cities[i]}) <= 1
           /\ after.missiles = w.missiles
           /\ after.kills = w.kills

(* the rocket pass, visiting the store as forEach does *)
RECURSIVE RocketPassFrames(_, _)
RocketPassFrames(w, index) ==
    IF index > Len(w.rockets) THEN TRUE
    ELSE /\ ImpactFrame(w, index)
         /\ RocketPassFrames(RocketStep(w, index), index + 1)

(* C15: a rocket processed at distance < 2 from its target is removed, one *)
(* explosion (radius 2, growing) is appended at the rocket's position, and *)
(* only the battery or city at the rocket's target position can change: it *)
(* becomes destroyed, a battery also gets ammo 0; every other structure,   *)
(* the other rockets, the missiles and the score are unchanged.            *)
C15_ImpactHitsOnlyItsTarget ==
    gameState = "playing" => RocketPassFrames(World, 1)

(* a playing tick in which the rocket aimed at the first city impacted:    *)
(* that city is destroyed, its neighbor is not, nothing was scored         *)
C15_Witness ==
    /\ hist.op = "tick"
    /\ hist.phase = "playing"
    /\ cities[1].destroyed
    /\ ~cities[2].destroyed
    /\ \E i \in 1..Len(explosions) :
          /\ explosions[i].x = cities[1].x
          /\ explosions[i].radius = 2 * Unit + EXPLOSION_GROWTH_RATE
    /\ score = 0

Dist2(a, b) == Sqr(a.x - b.x) + Sqr(a.y - b.y)

(* the rockets at a distance strictly less than 300 from the missile *)
InRange(m, rs) == {j \in 1..Len(rs) : Dist2(rs[j], m) < Sqr(300 * Unit)}

(* where the missile is to head for: the nearest rocket in range, the      *)
(* first in store order of equally near ones; its old destination if none  *)
Aim(m, rs) ==
    IF InRange(m, rs) = {} THEN [x |-> m.destX, y |-> m.destY]
    ELSE LET n == CHOOSE j \in InRange(m, rs) :
                      \A k \in InRange(m, rs) :
                          \/ Dist2(rs[j], m) < Dist2(rs[k], m)
                          \/ Dist2(rs[j], m) = Dist2(rs[k], m) /\ j <= k
         IN  [x |-> rs[n].x, y |-> rs[n].y]

(* the destination the missile at index flies to or detonates at *)
RetargetFrame(w, index) ==
    LET m == w.missiles[index]
        after == MissileStep(w, index)
        aim == Aim(m, w.rockets)
    IN  IF Len(after.missiles) = Len(w.missiles)
        THEN /\ after.missiles[index].destX = aim.x
             /\ after.missiles[index].destY = aim.y
        ELSE /\ after.explosions[Len(after.explosions)].x = aim.x
             /\ after.explosions[Len(after.explosions)].y = aim.y

(* the missile pass, visiting the store as forEach does *)
RECURSIVE MissilePassRetargets(_, _)
MissilePassRetargets(w, index) ==
    IF index > Len(w.missiles) THEN TRUE
    ELSE /\ RetargetFrame(w, index)
         /\ MissilePassRetargets(MissileStep(w, index), index + 1)

(* C16: a missile processed in a playing tick gets as destination the      *)
(* current position of the nearest rocket at distance < 300, the first in  *)
(* store order among equally near ones; with no rocket within 300 its      *)
(* destination stays as it was.                                            *)
C16_MissileSeeksNearestRocket ==
    gameState = "playing" => MissilePassRetargets(UpdateRockets(World, 1), 1)

(* a missile one step from the center battery that is aimed at the first   *)
(* of two rockets standing at the same height on either side of it         *)
C16_Witness ==
    /\ hist.op = "tick"
    /\ hist.phase = "playing"
    /\ \E i \in 1..Len(missiles) :
          \E j, k \in 1..Len(rockets) :
              /\ j < k
              /\ missiles[i].destX = rockets[j].x
              /\ missiles[i].destY = rockets[j].y
              /\ rockets[k].y = rockets[j].y
              /\ rockets[j].x + rockets[k].x = 2 * missiles[i].startX
              /\ rockets[j].x # rockets[k].x
              /\ Sqr(missiles[i].x - missiles[i].startX)
                   + Sqr(missiles[i].y - missiles[i].startY)
                     <= Sqr(7 * Unit)

(* the missile at index either detonates or advances *)
DetonationFrame(w, index) ==
    LET m == w.missiles[index]
        after == MissileStep(w, index)
        aim == Aim(m, w.rockets)
        last == after.explosions[Len(after.explosions)]
    IN  /\ after.rockets = w.rockets
        /\ after.batteries = w.batteries
        /\ after.cities = w.cities
        /\ after.kills = w.kills
        /\ IF Dist2(aim, m) < Sqr(7 * Unit)
           THEN /\ Len(after.missiles) = Len(w.missiles) - 1
                /\ \A k \in 1..Len(after.missiles) :
                      after.missiles[k]
                        = w.missiles[IF k < index THEN k ELSE k + 1]
                /\ Len(after.explosions) = Len(w.explosions) + 1
                /\ SubSeq(after.explosions, 1, Len(w.explosions))
                     = w.explosions
                /\ last.x = aim.x /\ last.y = aim.y
                /\ last.radius = 2 * Unit /\ last.growing
           ELSE /\ Len(after.missiles) = Len(w.missiles)
                /\ \A k \in 1..Len(w.missiles) :
                      k # index => after.missiles[k] = w.missiles[k]
                /\ after.missiles[index].id = m.id
                /\ after.explosions = w.explosions
                   \* 7 units, within two steps of the grid, and toward
                   \* the destination
                /\ Dist2(after.missiles[index], m) <= Sqr(7 * Unit + 2)
                /\ Dist2(after.missiles[index], m) >= Sqr(7 * Unit - 2)
                /\ Abs(aim.x - after.missiles[index].x) <= Abs(aim.x - m.x)
                /\ Abs(aim.y - after.missiles[index].y) <= Abs(aim.y - m.y)
                /\ Dist2(aim, after.missiles[index]) < Dist2(aim, m)

RECURSIVE MissilePassDetonates(_, _)
MissilePassDetonates(w, index) ==
    IF index > Len(w.missiles) THEN TRUE
    ELSE /\ DetonationFrame(w, index)
         /\ MissilePassDetonates(MissileStep(w, index), index + 1)

(* outside the missile pass no missile leaves the store during a round *)
C17_MissileStoreStep ==
    /\ PlayingTick
         => missiles' = UpdateMissiles(UpdateRockets(World, 1), 1).missiles
    /\ hist'.op = "tick" /\ gameState # "playing" => missiles' = missiles
    /\ hist'.op = "fire"
         => SubSeq(missiles', 1, Len(missiles)) = missiles

(* C17: a missile leaves the store during a round only by detonating,      *)
(* exactly when on being processed its distance to its (re-aimed)          *)
(* destination is < 7; the detonation appends one explosion, radius 2,     *)
(* growing, centered on the destination; otherwise the missile moves 7     *)
(* units toward its destination and stays in the store.                    *)
C17_MissileLeavesOnlyByDetonation ==
    /\ [](gameState = "playing"
            => MissilePassDetonates(UpdateRockets(World, 1), 1))
    /\ [][C17_MissileStoreStep]_vars

(* a missile launched from the center battery has detonated on a rocket    *)
(* above the battery: the explosion is centered on the rocket's position,  *)
(* not on the battery, and the missile is gone                             *)
C17_Witness ==
    /\ hist.op = "tick"
    /\ hist.phase = "playing"
    /\ fired = 1
    /\ missiles = <<>>
    /\ ~batteries[2].destroyed
    /\ \E i \in 1..Len(explosions) :
          /\ explosions[i].x = batteries[2].x
          /\ explosions[i].y < batteries[2].y
          /\ explosions[i].radius = 2 * Unit + EXPLOSION_GROWTH_RATE

(* the sequence keeps the order of the store it was taken from *)
IsSubSeqById(sub, seq) ==
    /\ \A j \in 1..Len(sub) : sub[j].id \in Ids(seq)
    /\ \A j, k \in 1..Len(sub) :
          j < k => \E a, b \in 1..Len(seq) :
                      a < b /\ seq[a].id = sub[j].id /\ seq[b].id = sub[k].id

Standing(px, py) ==
    \/ \E i \in 1..Len(batteries') :
          ~batteries'[i].destroyed /\ At(batteries'[i], px, py)
    \/ \E i \in 1..Len(cities') :
          ~cities'[i].destroyed /\ At(cities'[i], px, py)

(* C18: a playing tick adds at most one rocket to the store; the rocket    *)
(* added starts at y = 0, inside the canvas width, aimed at the position   *)
(* of a battery or city that is not destroyed when it is spawned; when     *)
(* every battery and city is destroyed no rocket is added.                 *)
C18_SpawnAddsAtMostOneRocket ==
    [][PlayingTick
         => /\ IsSubSeqById(Survivors, rockets)
            /\ Len(rockets') <= Len(Survivors) + 1
            /\ Appended
                 => LET new == rockets'[Len(rockets')]
                    IN  /\ Len(rockets') = Len(Survivors) + 1
                        /\ new.y = 0
                        /\ new.x >= 0 /\ new.x <= CANVAS_WIDTH
                        /\ Standing(new.targetX, new.targetY)
            /\ ~Appended => rockets' = Survivors]_vars

(* a playing tick whose draw called spawnRocket after the last structure   *)
(* had been hit: no rocket was added                                       *)
C18_Witness ==
    /\ hist.op = "tick"
    /\ hist.phase = "playing"
    /\ hist.spawn
    /\ \A i \in 1..Len(batteries) : batteries[i].destroyed
    /\ \A i \in 1..Len(cities) : cities[i].destroyed
    /\ \A j \in 1..Len(rockets) : rockets[j].y > 0

ToTarget2(rocket) ==
    Sqr(rocket.targetX - rocket.x) + Sqr(rocket.targetY - rocket.y)

(* C19: a rocket that is in the store before and after a step is no        *)
(* farther from its target after it than before, and has the same target   *)
(* and the same speed.                                                     *)
C19_RocketNeverRecedes ==
    [][\A j \in 1..Len(Survivors) :
          \A k \in 1..Len(rockets) :
              rockets[k].id = Survivors[j].id
                => /\ Survivors[j].targetX = rockets[k].targetX
                   /\ Survivors[j].targetY = rockets[k].targetY
                   /\ Survivors[j].speed = rockets[k].speed
                   /\ ToTarget2(Survivors[j]) <= ToTarget2(rockets[k])]_vars

(* a rocket spawned at the left edge has been moved along its oblique path *)
(* by a playing tick                                                       *)
C19_Witness ==
    /\ hist.op = "tick"
    /\ hist.phase = "playing"
    /\ \E j \in 1..Len(rockets) :
          /\ rockets[j].x > 0
          /\ rockets[j].x < rockets[j].targetX
          /\ rockets[j].y > 0
          /\ rockets[j].y < rockets[j].targetY

-----------------------------------------------------------------------------
(* The life of an explosion *)

(* frames from radius 2 up to the first radius >= 40 *)
GrowthTicks ==
    (EXPLOSION_RADIUS_MAX - ExplosionStartRadius + EXPLOSION_GROWTH_RATE - 1)
        \div EXPLOSION_GROWTH_RATE

PeakRadius == ExplosionStartRadius + GrowthTicks * EXPLOSION_GROWTH_RATE

(* frames from the peak down to the first radius <= 0 *)
FadeTicks ==
    (PeakRadius + EXPLOSION_GROWTH_RATE - 1) \div EXPLOSION_GROWTH_RATE

Lifetime == GrowthTicks + FadeTicks

(* the explosions whose life is followed, by id *)
ExplosionIds == 1..MaxTrackedId

InStore(id) == \E i \in 1..Len(explosions) : explosions[i].id = id

(* the explosion is in the store of a round in progress, and the round has *)
(* frames left for its lifetime and for one skipped frame per explosion    *)
(* stored before it                                                        *)
HasTimeLeft(id) ==
    /\ gameState = "playing"
    /\ \E i \in 1..Len(explosions) :
          /\ explosions[i].id = id
          /\ ticks + Lifetime + (i - 1) <= MaxTicks

(* C20: every explosion that enters the store is eventually removed from   *)
(* it, as long as the phase stays playing and frames keep coming; the      *)
(* removal of other explosions during the pass cannot keep it alive.       *)
C20_ExplosionEventuallyRemoved ==
    \A id \in ExplosionIds :
        [](HasTimeLeft(id) => <>(~InStore(id) \/ gameState # "playing"))

(* a round that started with every city standing and is still in progress *)
(* after the explosion of a missile and, behind it in the store, the      *)
(* explosions of three impacts of one frame have all gone out             *)
C20_Witness ==
    /\ hist.op = "tick"
    /\ gameState = "playing"
    /\ ticks > Lifetime
    /\ fired > 0
    /\ ~batteries[1].destroyed /\ batteries[1].ammo < batteries[1].maxAmmo
    /\ \A i \in {1, 3, 5} :
          /\ cities[i].destroyed
          /\ \A k \in 1..Len(explosions) : explosions[k].x # cities[i].x

-----------------------------------------------------------------------------
(* C21: a fire command issued while the phase is menu, won or lost changes *)
(* nothing, also when a battery is eligible: no ammo is consumed, no       *)
(* missile is created, and the stores, the score, the phase and the ammo   *)
(* snapshot are as before.                                                 *)
C21_FireOutsideRoundIsNoOp ==
    [][(hist'.op = "fire" /\ gameState # "playing")
         => Observable' = Observable]_vars

(* a click in the menu, where all three batteries are eligible *)
C21_Witness ==
    /\ hist.op = "fire"
    /\ hist.phase = "menu"
    /\ gameState = "menu"
    /\ \A i \in Batteries : CanFire(batteries[i])
    /\ missiles = <<>>

(* what the three batteries hold at the start of a round: 20 + 40 + 20 *)
TotalCapacity ==
    InitialBatteries[1].maxAmmo + InitialBatteries[2].maxAmmo
        + InitialBatteries[3].maxAmmo

(* C22: in every state, for each battery that is not destroyed, capacity   *)
(* minus ammo is the number of missiles launched from it since the last    *)
(* restart, and the missiles launched in the round are at most 80.         *)
C22_AmmoCountsLaunches ==
    /\ \A i \in Batteries :
          ~batteries[i].destroyed
            => batteries[i].maxAmmo - batteries[i].ammo = launched[i]
    /\ launched[1] + launched[2] + launched[3] <= TotalCapacity

(* the 80th missile of a round has been launched, from the center battery, *)
(* and a further click has launched nothing                                *)
C22_Witness ==
    /\ hist.op = "fire"
    /\ hist.phase = "playing"
    /\ fired = 2
    /\ ~batteries[2].destroyed
    /\ batteries[2].ammo = 0
    /\ launched[2] = batteries[2].maxAmmo
    /\ launched[1] + launched[2] + launched[3] = TotalCapacity

====
